---------------------------- MODULE Spec2Model ----------------------------
(***************************************************************************)
(* Model of src/evaluate.cpp (SmallfishNPS): the two entry points          *)
(* Eval::evaluate and Eval::trace, the class method Evaluation<T>::value   *)
(* they share, and the Trace namespace (the global score table `scores`,   *)
(* the two overloads of Trace::add and the Term row printer).              *)
(*                                                                         *)
(* A call is a sequence of steps, one per statement that reads or writes   *)
(* state; pc[t] is the position of thread t, named after the source line   *)
(* of the statement it executes next.                                      *)
(***************************************************************************)
EXTENDS Integers, Sequences, FiniteSets

(***************************************************************************)
(* Bounds of the model.                                                    *)
(***************************************************************************)
\* how far beyond the clamp bound, on either side, a neural output lies
MaxExcess == 1

(***************************************************************************)
(* Program constants.                                                      *)
(***************************************************************************)
\* evaluate.cpp:237, the literal in std::min(v, Value(30000))
ClampBound == 30000
\* types.h (not in src/): the bonus of the side to move, "small, fixed, positive"
Tempo == 28

\* types.h (not in src/): enum PieceType; evaluate.cpp:42 reserves 0..7 for it
PAWN == 1
KNIGHT == 2
BISHOP == 3
ROOK == 4
QUEEN == 5
KING == 6
\* evaluate.cpp:42-44, enum Term
MATERIAL == 8
IMBALANCE == MATERIAL + 1
MOBILITY == MATERIAL + 2
THREAT == MATERIAL + 3
PASSED == MATERIAL + 4
SPACE == MATERIAL + 5
WINNABLE == MATERIAL + 6
TOTAL == MATERIAL + 7
TERM_NB == MATERIAL + 8

WHITE == "WHITE"
BLACK == "BLACK"
Colors == {WHITE, BLACK}

\* the search threads; each owns the positions it evaluates (pos.this_thread())
Threads == {1, 2}

(***************************************************************************)
(* Score: an (mg, eg) pair (types.h).                                      *)
(***************************************************************************)
make_score(mg, eg) == [mg |-> mg, eg |-> eg]
SCORE_ZERO == make_score(0, 0)
\* operator-(Score, Score)
ScoreSub(a, b) == make_score(a.mg - b.mg, a.eg - b.eg)

\* the scores the callers of Trace::add record
ScoreValues == {SCORE_ZERO, make_score(1, 2)}
\* the values the search gives Thread::contempt
ContemptValues == {SCORE_ZERO, make_score(1, 2)}
\* the terms the callers of Trace::add record: a piece-type term and a synthetic one
AddTerms == {PAWN, MATERIAL}
\* the terms whose row is streamed on its own
PrintTerms == {PAWN, MATERIAL}

(***************************************************************************)
(* Positions: what evaluate.cpp reads of a Position.                       *)
(***************************************************************************)
NnueOutputs ==
    {-(ClampBound + MaxExcess), -ClampBound, 0, ClampBound, ClampBound + MaxExcess}
\* a position in check is given the output 0: no statement reads it
Positions ==
    {p \in [nnue_output : NnueOutputs, side_to_move : Colors, checkers : BOOLEAN] :
        p.checkers => p.nnue_output = 0}
NoPos == [nnue_output |-> 0, side_to_move |-> "-", checkers |-> FALSE]

VARIABLES
    scores,        \* Trace::scores[TERM_NB][COLOR_NB], the global table
    contempt,      \* Thread::contempt of each thread
    pc,            \* each thread's position in its current call
    pos,           \* the Position argument of each thread's current or last call
    term,          \* the Term argument of each thread's current or last row print
    v,             \* the local Value v of value() and trace()
    result,        \* what each thread's last call returned
    assertFailed,  \* assert(!pos.checkers()) of value() has failed
    serial         \* the callers run one call at a time

vars == <<scores, contempt, pc, pos, term, v, result, assertFailed, serial>>

Min(a, b) == IF a <= b THEN a ELSE b
Abs(a) == IF a < 0 THEN -a ELSE a

InCheckText == "Total evaluation: none (in check)"

NoResult == [kind |-> "none", value |-> 0, text |-> "", rows |-> <<>>]
ValueResult(x) == [kind |-> "value", value |-> x, text |-> "", rows |-> <<>>]
TextResult(s) == [kind |-> "text", value |-> 0, text |-> s, rows |-> <<>>]
RowResult(r) == [kind |-> "row", value |-> 0, text |-> "", rows |-> <<r>>]
ReportResult(rs, x) == [kind |-> "report", value |-> x, text |-> "", rows |-> rs]

Quiet == {"idle", "done"}

\* thread t may begin a call: it is in none, and callers that run one call at a
\* time have no other call in progress
CanStart(t) ==
    /\ pc[t] \in Quiet
    /\ serial => \A u \in Threads : pc[u] \in Quiet

\* nothing is being evaluated, traced or printed
AllQuiet == \A u \in Threads : pc[u] \in Quiet

(***************************************************************************)
(* Trace: the score table and the row printer (evaluate.cpp:38-75).        *)
(***************************************************************************)
TermIndex == 0..(TERM_NB - 1)

\* a variant of the memset below that clears only the piece-type rows
ZeroedPieceRows ==
    [i \in TermIndex |->
        IF i < MATERIAL THEN [c \in Colors |-> SCORE_ZERO] ELSE scores[i]]

\* std::memset(scores, 0, sizeof(scores))
ZeroedScores == [i \in TermIndex |-> [c \in Colors |-> SCORE_ZERO]]

\* the rows of the report, in the order trace() streams them
ReportOrder ==
    <<MATERIAL, IMBALANCE, PAWN, KNIGHT, BISHOP, ROOK, QUEEN, MOBILITY, KING,
      THREAT, PASSED, SPACE, WINNABLE, TOTAL>>
ReportTerms == {ReportOrder[i] : i \in 1..Len(ReportOrder)}

\* a variant of the row printer below whose test leaves WINNABLE out
TermRowNoWinnable(tm) ==
    LET dashes == tm = MATERIAL \/ tm = IMBALANCE \/ tm = TOTAL
    IN [term   |-> tm,
        dashes |-> dashes,
        white  |-> IF dashes THEN <<>> ELSE <<scores[tm][WHITE]>>,
        black  |-> IF dashes THEN <<>> ELSE <<scores[tm][BLACK]>>,
        total  |-> ScoreSub(scores[tm][WHITE], scores[tm][BLACK])]

\* operator<<(std::ostream&, Term): one row of the report. A cell is the
\* Score handed to operator<<(std::ostream&, Score), or nothing where the
\* code prints dashes.
TermRow(tm) ==
    LET dashes == tm = MATERIAL \/ tm = IMBALANCE \/ tm = WINNABLE \/ tm = TOTAL
    IN [term   |-> tm,
        dashes |-> dashes,
        white  |-> IF dashes THEN <<>> ELSE <<scores[tm][WHITE]>>,
        black  |-> IF dashes THEN <<>> ELSE <<scores[tm][BLACK]>>,
        total  |-> ScoreSub(scores[tm][WHITE], scores[tm][BLACK])]

\* void add(int idx, Color c, Score s)
add_color(idx, c, s) ==
    /\ AllQuiet
    /\ scores' = [scores EXCEPT ![idx][c] = s]
    /\ UNCHANGED <<contempt, pc, pos, term, v, result, assertFailed, serial>>

\* void add(int idx, Score w, Score b = SCORE_ZERO)
add_both(idx, w, b) ==
    /\ AllQuiet
    /\ scores' = [scores EXCEPT ![idx][WHITE] = w, ![idx][BLACK] = b]
    /\ UNCHANGED <<contempt, pc, pos, term, v, result, assertFailed, serial>>

\* a caller streams one Term row: the call
PrintCall(t, tm) ==
    /\ AllQuiet
    /\ pc' = [pc EXCEPT ![t] = "print_65"]
    /\ term' = [term EXCEPT ![t] = tm]
    /\ pos' = [pos EXCEPT ![t] = NoPos]
    /\ v' = [v EXCEPT ![t] = 0]
    /\ result' = [result EXCEPT ![t] = NoResult]
    /\ UNCHANGED <<scores, contempt, assertFailed, serial>>

\* ... and the body of operator<<(std::ostream&, Term)
PrintRow(t) ==
    /\ pc[t] = "print_65"
    /\ result' = [result EXCEPT ![t] = RowResult(TermRow(term[t]))]
    /\ pc' = [pc EXCEPT ![t] = "done"]
    /\ UNCHANGED <<scores, contempt, pos, term, v, assertFailed, serial>>

(***************************************************************************)
(* Thread::contempt is set by the search (thread.h, search.cpp).           *)
(***************************************************************************)
SetContempt(t, s) ==
    /\ AllQuiet
    /\ contempt[t] # s
    /\ contempt' = [contempt EXCEPT ![t] = s]
    /\ UNCHANGED <<scores, pc, pos, term, v, result, assertFailed, serial>>

(***************************************************************************)
(* Evaluation<T>::value (evaluate.cpp:231-240).                            *)
(***************************************************************************)
\* a variant of value() that adds Tempo before the sign is turned
value_tempo_first(p) ==
    LET v0 == p.nnue_output
        v1 == Min(v0, ClampBound)
    IN IF p.side_to_move = WHITE THEN v1 + Tempo ELSE -(v1 + Tempo)

\* a variant of value() that adds the recorded pawn term, as a classical
\* evaluation would
value_reads_table(p) ==
    LET v0 == p.nnue_output
        v1 == Min(v0, ClampBound)
        sc == ScoreSub(scores[PAWN][WHITE], scores[PAWN][BLACK])
    IN (IF p.side_to_move = WHITE THEN v1 + sc.mg ELSE -(v1 + sc.mg)) + Tempo

\*   Value v = pos.nnue_output();
\*   v = std::min(v, Value(30000));
\*   return (pos.side_to_move() == WHITE ? v : -v) + Tempo;
value(p) ==
    LET v0 == p.nnue_output
        v1 == Min(v0, ClampBound)
    IN (IF p.side_to_move = WHITE THEN v1 ELSE -v1) + Tempo

(***************************************************************************)
(* Eval::evaluate (evaluate.cpp:248-250).                                  *)
(***************************************************************************)
\* the call; its callers never pass a position in check
EvaluateCall(t, p) ==
    /\ CanStart(t)
    /\ ~p.checkers
    /\ pc' = [pc EXCEPT ![t] = "eval_249"]
    /\ pos' = [pos EXCEPT ![t] = p]
    /\ term' = [term EXCEPT ![t] = 0]
    /\ v' = [v EXCEPT ![t] = 0]
    /\ result' = [result EXCEPT ![t] = NoResult]
    /\ UNCHANGED <<scores, contempt, assertFailed, serial>>

\* a variant of the return below that resets the contempt as trace() does
EvaluateReturnResetsContempt(t) ==
    /\ pc[t] = "eval_249"
    /\ assertFailed' = (assertFailed \/ pos[t].checkers)
    /\ result' = [result EXCEPT ![t] = ValueResult(value(pos[t]))]
    /\ contempt' = [contempt EXCEPT ![t] = SCORE_ZERO]
    /\ pc' = [pc EXCEPT ![t] = "done"]
    /\ UNCHANGED <<scores, pos, term, v, serial>>

\* return Evaluation<NO_TRACE>(pos).value();
EvaluateReturn(t) ==
    /\ pc[t] = "eval_249"
    /\ assertFailed' = (assertFailed \/ pos[t].checkers)
    /\ result' = [result EXCEPT ![t] = ValueResult(value(pos[t]))]
    /\ pc' = [pc EXCEPT ![t] = "done"]
    /\ UNCHANGED <<scores, contempt, pos, term, v, serial>>

(***************************************************************************)
(* Eval::trace (evaluate.cpp:257-294).                                     *)
(***************************************************************************)
TraceCall(t, p) ==
    /\ CanStart(t)
    /\ pc' = [pc EXCEPT ![t] = "trace_259"]
    /\ pos' = [pos EXCEPT ![t] = p]
    /\ term' = [term EXCEPT ![t] = 0]
    /\ v' = [v EXCEPT ![t] = 0]
    /\ result' = [result EXCEPT ![t] = NoResult]
    /\ UNCHANGED <<scores, contempt, assertFailed, serial>>

\* a variant of the test below that never returns early
TraceCheckNever(t) ==
    /\ pc[t] = "trace_259"
    /\ pc' = [pc EXCEPT ![t] = "trace_262"]
    /\ UNCHANGED <<scores, contempt, pos, term, v, result, assertFailed, serial>>

\* if (pos.checkers()) return "Total evaluation: none (in check)";
TraceCheck(t) ==
    /\ pc[t] = "trace_259"
    /\ IF pos[t].checkers
         THEN /\ result' = [result EXCEPT ![t] = TextResult(InCheckText)]
              /\ pc' = [pc EXCEPT ![t] = "done"]
         ELSE /\ pc' = [pc EXCEPT ![t] = "trace_262"]
              /\ UNCHANGED result
    /\ UNCHANGED <<scores, contempt, pos, term, v, assertFailed, serial>>

\* std::memset(scores, 0, sizeof(scores));
TraceMemset(t) ==
    /\ pc[t] = "trace_262"
    /\ scores' = ZeroedScores
    /\ pc' = [pc EXCEPT ![t] = "trace_264"]
    /\ UNCHANGED <<contempt, pos, term, v, result, assertFailed, serial>>

\* pos.this_thread()->contempt = SCORE_ZERO;
TraceContempt(t) ==
    /\ pc[t] = "trace_264"
    /\ contempt' = [contempt EXCEPT ![t] = SCORE_ZERO]
    /\ pc' = [pc EXCEPT ![t] = "trace_266"]
    /\ UNCHANGED <<scores, pos, term, v, result, assertFailed, serial>>

\* Value v = Evaluation<TRACE>(pos).value();
TraceValue(t) ==
    /\ pc[t] = "trace_266"
    /\ assertFailed' = (assertFailed \/ pos[t].checkers)
    /\ v' = [v EXCEPT ![t] = value(pos[t])]
    /\ pc' = [pc EXCEPT ![t] = "trace_268"]
    /\ UNCHANGED <<scores, contempt, pos, term, result, serial>>

\* a variant of the statement below that leaves v as value() returned it
TraceFlipNever(t) ==
    /\ pc[t] = "trace_268"
    /\ pc' = [pc EXCEPT ![t] = "trace_270"]
    /\ UNCHANGED <<scores, contempt, pos, term, v, result, assertFailed, serial>>

\* v = pos.side_to_move() == WHITE ? v : -v;
TraceFlip(t) ==
    /\ pc[t] = "trace_268"
    /\ v' = [v EXCEPT ![t] = IF pos[t].side_to_move = WHITE THEN v[t] ELSE -v[t]]
    /\ pc' = [pc EXCEPT ![t] = "trace_270"]
    /\ UNCHANGED <<scores, contempt, pos, term, result, assertFailed, serial>>

\* the report: the fourteen Term rows, then "Final evaluation: " << to_cp(v);
\* the report holds the Value handed to to_cp
TraceRender(t) ==
    /\ pc[t] = "trace_270"
    /\ result' = [result EXCEPT ![t] =
            ReportResult([i \in 1..Len(ReportOrder) |-> TermRow(ReportOrder[i])], v[t])]
    /\ pc' = [pc EXCEPT ![t] = "done"]
    /\ UNCHANGED <<scores, contempt, pos, term, v, assertFailed, serial>>

(***************************************************************************)
(* The specifications.                                                     *)
(***************************************************************************)
\* a global is zero-initialised
InitState ==
    /\ scores = [i \in TermIndex |-> [c \in Colors |-> SCORE_ZERO]]
    /\ contempt = [t \in Threads |-> SCORE_ZERO]
    /\ pc = [t \in Threads |-> "idle"]
    /\ pos = [t \in Threads |-> NoPos]
    /\ term = [t \in Threads |-> 0]
    /\ v = [t \in Threads |-> 0]
    /\ result = [t \in Threads |-> NoResult]
    /\ assertFailed = FALSE

\* the callers run one call at a time
Init == InitState /\ serial = TRUE

\* the threads call evaluate() and trace() concurrently
InitConc == InitState /\ serial = FALSE

Next ==
    \/ \E idx \in AddTerms, c \in Colors, s \in ScoreValues : add_color(idx, c, s)
    \/ \E idx \in AddTerms, w \in ScoreValues, b \in ScoreValues : add_both(idx, w, b)
    \/ \E t \in Threads, tm \in PrintTerms : PrintCall(t, tm)
    \/ \E t \in Threads : PrintRow(t)
    \/ \E t \in Threads, s \in ContemptValues : SetContempt(t, s)
    \/ \E t \in Threads, p \in Positions : EvaluateCall(t, p)
    \/ \E t \in Threads : EvaluateReturn(t)
    \/ \E t \in Threads, p \in Positions : TraceCall(t, p)
    \/ \E t \in Threads : TraceCheck(t)
    \/ \E t \in Threads : TraceMemset(t)
    \/ \E t \in Threads : TraceContempt(t)
    \/ \E t \in Threads : TraceValue(t)
    \/ \E t \in Threads : TraceFlip(t)
    \/ \E t \in Threads : TraceRender(t)

Spec == Init /\ [][Next]_vars

SpecConc == InitConc /\ [][Next]_vars

(***************************************************************************)
(* What the claims speak of.                                               *)
(***************************************************************************)
\* thread t holds the value evaluate() returned for pos[t]
EvalDone(t) == pc[t] = "done" /\ result[t].kind = "value"
\* thread t holds the report trace() returned for pos[t]
ReportDone(t) == pc[t] = "done" /\ result[t].kind = "report"
\* the White-relative score, tempo excluded, behind the value evaluate() returned
WhiteScore(t) ==
    IF pos[t].side_to_move = WHITE
        THEN result[t].value - Tempo
        ELSE -(result[t].value - Tempo)
\* the colour-and-rank mirror of a position, as evaluate.cpp sees it
Mirror(p) ==
    [nnue_output  |-> -p.nnue_output,
     side_to_move |-> IF p.side_to_move = WHITE THEN BLACK ELSE WHITE,
     checkers     |-> p.checkers]
\* the statements of trace() after the in-check test
TraceBody == {"trace_262", "trace_264", "trace_266", "trace_268", "trace_270"}
\* the statements of trace() between the zeroing of the table and the return
AfterMemset == {"trace_264", "trace_266", "trace_268", "trace_270"}
\* thread t executes a statement of evaluate(), of trace()
EvaluateStep(t) == pc[t] = "eval_249" /\ pc'[t] # pc[t]
TraceStep(t) == pc[t] \in ({"trace_259"} \cup TraceBody) /\ pc'[t] # pc[t]
SyntheticTerms == {MATERIAL, IMBALANCE, WINNABLE, TOTAL}

(***************************************************************************)
(* C1. Whatever the neural evaluator returns, the White-relative score     *)
(* that value() reorients has magnitude at most 30000, so the value        *)
(* evaluate() returns has magnitude at most 30000 + Tempo.                 *)
(* The code bounds the score from above only.                              *)
(***************************************************************************)
C1_MagnitudeBounded ==
    \A t \in Threads :
        EvalDone(t) =>
            /\ Abs(WhiteScore(t)) <= ClampBound
            /\ Abs(result[t].value) <= ClampBound + Tempo

(***************************************************************************)
(* C2. evaluate() of a position not in check is c + Tempo with White to    *)
(* move and -c + Tempo with Black to move, c being the neural output as    *)
(* line 237 clamps it: the clamp comes before the sign, Tempo after it,    *)
(* and an output of 0 gives Tempo to either side.                          *)
(***************************************************************************)
C2_SideToMoveValue ==
    \A t \in Threads :
        EvalDone(t) =>
            LET c == Min(pos[t].nnue_output, ClampBound)
            IN /\ ~pos[t].checkers
               /\ pos[t].side_to_move = WHITE => result[t].value = c + Tempo
               /\ pos[t].side_to_move = BLACK => result[t].value = -c + Tempo
               /\ pos[t].nnue_output = 0 => result[t].value = Tempo

\* Black to move on an output above the bound: clamped, then negated, then Tempo
C2_Witness ==
    \E t \in Threads :
        /\ EvalDone(t)
        /\ pos[t].side_to_move = BLACK
        /\ pos[t].nnue_output = ClampBound + MaxExcess
        /\ result[t].value = Tempo - ClampBound

(***************************************************************************)
(* C3. trace() of a position in check returns exactly the fixed text in    *)
(* its first statement: the table and every contempt are as before, no     *)
(* statement of the body is reached, and the assertion of value() never    *)
(* fails.                                                                  *)
(***************************************************************************)
C3_InCheckTrace ==
    /\ [][\A t \in Threads :
            (pc[t] = "trace_259" /\ pos[t].checkers /\ pc'[t] # pc[t]) =>
                /\ pc'[t] = "done"
                /\ result'[t] = TextResult("Total evaluation: none (in check)")
                /\ scores' = scores
                /\ contempt' = contempt
                /\ v' = v]_vars
    /\ [](\A t \in Threads : pc[t] \in TraceBody => ~pos[t].checkers)
    /\ [](~assertFailed)

\* an in-check trace has returned, with a contempt and a table that are not zero
C3_Witness ==
    \E t \in Threads :
        /\ pc[t] = "done"
        /\ pos[t].checkers
        /\ result[t].kind = "text"
        /\ contempt[t] # SCORE_ZERO
        /\ scores # ZeroedScores

(***************************************************************************)
(* C4. The White-relative score, tempo excluded, of the mirror of a        *)
(* position is the negation of that of the position, for every neural      *)
(* output. The one-sided clamp of C1 breaks it beyond the bound.           *)
(***************************************************************************)
C4_MirrorNegates ==
    \A t, u \in Threads :
        (EvalDone(t) /\ EvalDone(u) /\ pos[u] = Mirror(pos[t])) =>
            WhiteScore(u) = -WhiteScore(t)

(***************************************************************************)
(* C5. Two evaluations of the same position return the same value,         *)
(* whatever was called in between and whatever the table and the contempt  *)
(* of the evaluating threads hold.                                         *)
(***************************************************************************)
C5_Deterministic ==
    \A t, u \in Threads :
        (EvalDone(t) /\ EvalDone(u) /\ pos[t] = pos[u]) =>
            result[t].value = result[u].value

\* the same position evaluated twice, under different contempts, the second
\* time with entries in the table
C5_Witness ==
    \E t, u \in Threads :
        /\ t # u
        /\ EvalDone(t) /\ EvalDone(u)
        /\ pos[t] = pos[u]
        /\ contempt[t] # contempt[u]
        /\ scores # ZeroedScores

(***************************************************************************)
(* C6. From the zeroing of the table to the return of trace() every entry  *)
(* of the table, for every term and both colours, is zero, and so is every *)
(* score of the report.                                                    *)
(***************************************************************************)
C6_ReportAllZero ==
    /\ \A t \in Threads :
            pc[t] \in AfterMemset =>
                \A i \in TermIndex, c \in Colors : scores[i][c] = SCORE_ZERO
    /\ \A t \in Threads :
            ReportDone(t) =>
                \A i \in 1..Len(result[t].rows) :
                    LET r == result[t].rows[i]
                    IN /\ r.total = SCORE_ZERO
                       /\ ~r.dashes => r.white = <<SCORE_ZERO>> /\ r.black = <<SCORE_ZERO>>

\* a report has been returned, and a row printed on its own shows that the
\* table has held an entry that is not zero
C6_Witness ==
    \E t, u \in Threads :
        /\ ReportDone(t)
        /\ Len(result[t].rows) = Len(ReportOrder)
        /\ result[u].kind = "row"
        /\ result[u].rows[1].total # SCORE_ZERO

C8_NothingShared ==
    \A t, u \in Threads :
        t # u => ~(pc[t] \in AfterMemset /\ pc[u] \in {"trace_262", "trace_270"})

(***************************************************************************)
(* C9. The final value of the report is the value of value() seen from     *)
(* White: value() with White to move, -value() with Black to move, that    *)
(* is c + Tempo and c - Tempo for the clamped output c; the same output    *)
(* reported for the two sides to move differs by 2 * Tempo.                *)
(***************************************************************************)
C9_WhiteSideFinal ==
    /\ \A t \in Threads :
            ReportDone(t) =>
                LET c == Min(pos[t].nnue_output, ClampBound)
                IN /\ pos[t].side_to_move = WHITE =>
                        result[t].value = value(pos[t]) /\ result[t].value = c + Tempo
                   /\ pos[t].side_to_move = BLACK =>
                        result[t].value = -value(pos[t]) /\ result[t].value = c - Tempo
    /\ \A t, u \in Threads :
            ( /\ ReportDone(t) /\ ReportDone(u)
              /\ pos[t].nnue_output = pos[u].nnue_output
              /\ pos[t].side_to_move = WHITE /\ pos[u].side_to_move = BLACK ) =>
                result[t].value - result[u].value = 2 * Tempo

\* the same output, not zero, reported with White and with Black to move
C9_Witness ==
    \E t, u \in Threads :
        /\ ReportDone(t) /\ ReportDone(u)
        /\ pos[t].nnue_output = pos[u].nnue_output
        /\ pos[t].nnue_output # 0
        /\ pos[t].side_to_move = WHITE /\ pos[u].side_to_move = BLACK

(***************************************************************************)
(* C10. A row that is printed, on its own or in the report, shows dashes   *)
(* for White and Black exactly when its term is MATERIAL, IMBALANCE,       *)
(* WINNABLE or TOTAL, shows the recorded scores of the two colours         *)
(* otherwise, and always ends with White's recorded score minus Black's;   *)
(* the report has the fourteen rows in the order of the source.            *)
(***************************************************************************)
C10_RowColumns ==
    [][\A t \in Threads :
        (pc[t] \in {"print_65", "trace_270"} /\ pc'[t] = "done") =>
            /\ pc[t] = "trace_270" =>
                    [i \in 1..Len(result'[t].rows) |-> result'[t].rows[i].term] = ReportOrder
            /\ pc[t] = "print_65" =>
                    Len(result'[t].rows) = 1 /\ result'[t].rows[1].term = term[t]
            /\ \A i \in 1..Len(result'[t].rows) :
                    LET r == result'[t].rows[i]
                        w == scores[r.term][WHITE]
                        b == scores[r.term][BLACK]
                    IN /\ r.dashes <=> r.term \in SyntheticTerms
                       /\ r.dashes => r.white = <<>> /\ r.black = <<>>
                       /\ ~r.dashes => r.white = <<w>> /\ r.black = <<b>>
                       /\ r.total.mg = w.mg - b.mg
                       /\ r.total.eg = w.eg - b.eg]_vars

\* a piece-type row showing a recorded Black score, and a synthetic row whose
\* difference is not zero
C10_Witness ==
    \E t, u \in Threads :
        /\ result[t].kind = "row"
        /\ ~result[t].rows[1].dashes
        /\ result[t].rows[1].black = <<make_score(1, 2)>>
        /\ result[t].rows[1].total = make_score(-1, -2)
        /\ result[u].kind = "row"
        /\ result[u].rows[1].dashes
        /\ result[u].rows[1].total # SCORE_ZERO

====
